---- MODULE Spec2Model ----
(***************************************************************************)
(* Accumulative Hour Tracker (src/main.py): the per-user CSV record store  *)
(* (CSVHandler) and the handlers of AccumulativeHourApp that read and      *)
(* write it.                                                               *)
(*                                                                         *)
(* A user's file is a sequence of rows, each row a sequence of text        *)
(* fields, as csv.writer wrote them; a value is text once it is in the     *)
(* file, so a duration goes in through str() and comes back through int(). *)
(* Row positions are 1-based here and 0-based in the source.               *)
(***************************************************************************)
EXTENDS Integers, Sequences, FiniteSets, TLC

\* ---------------------------------------------------------------- bounds
MaxRecs == 2        \* add_activity is offered while the stores hold fewer records
MaxDay  == 2        \* the calendar date advances up to this day

\* ------------------------------------------------------ program constants
MinDuration == 1     \* duration_input.setRange(1, 300)
MaxDuration == 300
DefaultGoal == 60    \* self.daily_goal = 60

\* ------------------------------------------------------------ input sets
\* the user ids in use, and what the login and register dialogs may return
Users          == {"default", "ana"}
UserInputs     == Users \cup {""}
\* what the Submit button finds in the category box, the line edit and the
\* duration box
AddInputs == {[category |-> "Work",    text |-> "Email",  duration |-> 30],
              [category |-> "Leisure", text |-> " Call ", duration |-> 40],
              [category |-> "Other",   text |-> " ",      duration |-> MinDuration]}
\* what the two dialogs of edit_activity return, the time as the user tries
\* to give it
EditInputs == {[activity |-> "Memo", ok_activity |-> TRUE,  time |-> MaxDuration + 1, ok_time |-> TRUE],
               [activity |-> "Memo", ok_activity |-> FALSE, time |-> 40,          ok_time |-> TRUE],
               [activity |-> "Memo", ok_activity |-> TRUE,  time |-> 40,          ok_time |-> FALSE]}
\* the daily goals the settings file may hold at start-up
Goals          == {DefaultGoal}
\* the goals the aggregate functions are evaluated at
TestGoals      == {0, 30, 31, DefaultGoal, 70, 71, 100}

Header == <<"Date", "Category", "Activity", "TimeSpent">>

\* max(a, b) of Python
Max2(a, b) == IF a >= b THEN a ELSE b

\* datetime.now().strftime("%Y-%m-%d") on calendar day d
DateStr(d) == "2024-01-0" \o ToString(d)

\* str(n) of a duration
Str(n) == ToString(n)

\* the texts str() gives the durations, each with the number it stands for
IntTable == [s \in {Str(n) : n \in 0..(MaxDuration + 1)} |->
                CHOOSE n \in 0..(MaxDuration + 1) : Str(n) = s]

\* int(s) of a TimeSpent field
int(s) == IntTable[s]

\* str.strip() on the texts the activity line edit is given
Strip(s) == CASE s = " Call " -> "Call"
              [] s = " "      -> ""
              [] OTHER        -> s

Range(f) == {f[i] : i \in DOMAIN f}

\* del activities[0] whatever the row
RemoveAt_first(s, i) == Tail(s)

\* the list without its element at (1-based) position i: del activities[row_idx]
RemoveAt(s, i) == [j \in 1..(Len(s) - 1) |-> IF j < i THEN s[j] ELSE s[j + 1]]

\* a file that does not exist
NoFile == [exists |-> FALSE, lines |-> <<>>]

File(lines) == [exists |-> TRUE, lines |-> lines]

\* csv.DictReader: the first row names the fields, every later row becomes
\* a dict from those names to its fields (the last of equal names wins);
\* under the header the application writes, that dict is spelled out
RowDict(fieldnames, row) ==
    IF fieldnames = Header
    THEN [Date |-> row[1], Category |-> row[2], Activity |-> row[3],
          TimeSpent |-> row[4]]
    ELSE [k \in Range(fieldnames) |->
            row[CHOOSE i \in DOMAIN fieldnames :
                   /\ fieldnames[i] = k
                   /\ \A j \in DOMAIN fieldnames : j > i => fieldnames[j] # k]]

DictReader(lines) ==
    IF lines = <<>> THEN <<>>
    ELSE [i \in 1..(Len(lines) - 1) |-> RowDict(lines[1], lines[i + 1])]

\* initialize_csv without the test for an existing file
initialize_csv_always(f) == File(<<Header>>)

\* CSVHandler.initialize_csv: writes the header only when the file is absent
initialize_csv(f) == IF f.exists THEN f ELSE File(<<Header>>)

\* CSVHandler.read_all_activities: every row; a missing file reads as empty
read_all_activities(f) == IF f.exists THEN DictReader(f.lines) ELSE <<>>

\* the loop without the test of the date
TodayLoop_nofilter(rows, day) == rows

RECURSIVE TodayLoop(_, _)
\* the loop of read_activities_for_today over the rows of the reader
TodayLoop(rows, day) ==
    IF rows = <<>> THEN <<>>
    ELSE IF Head(rows)["Date"] = day
         THEN <<Head(rows)>> \o TodayLoop(Tail(rows), day)
         ELSE TodayLoop(Tail(rows), day)

\* CSVHandler.read_activities_for_today on calendar day d
read_activities_for_today(f, d) ==
    IF f.exists THEN TodayLoop(DictReader(f.lines), DateStr(d)) ELSE <<>>

\* write_activities without the header row
write_activities_noheader(activities) ==
    File([i \in 1..Len(activities) |->
             <<activities[i]["Date"], activities[i]["Category"],
               activities[i]["Activity"], activities[i]["TimeSpent"]>>])

\* CSVHandler.write_activities: header, then one row per given activity
write_activities(activities) ==
    File(<<Header>> \o
         [i \in 1..Len(activities) |->
             <<activities[i]["Date"], activities[i]["Category"],
               activities[i]["Activity"], activities[i]["TimeSpent"]>>])

\* clear_history truncating the file without writing the header
clear_history_truncate == File(<<>>)

\* CSVHandler.clear_history: the file rewritten with the header alone
clear_history_csv == File(<<Header>>)

\* the file opened with "w" in place of "a"
append_row_truncating(f, row) == File(<<row>>)

\* open(file, "a") and writerow of add_activity: one row at the end of the
\* file, which is created when absent
append_row(f, row) == File(f.lines \o <<row>>)

RECURSIVE total_time(_)
\* sum(int(activity["TimeSpent"]) for activity in activities)
total_time(activities) ==
    IF activities = <<>> THEN 0
    ELSE int(Head(activities)["TimeSpent"]) + total_time(Tail(activities))

\* the remaining time without max(..., 0)
remaining_time_signed(activities, goal) == goal - total_time(activities)

\* remaining_time of update_pie_chart
remaining_time(activities, goal) == Max2(goal - total_time(activities), 0)

\* the activities of one date, as the inner generator of update_stats takes them
OnDate(activities, date) == SelectSeq(activities, LAMBDA a : a["Date"] = date)

\* days_completed_goal with the comparison turned round
days_completed_goal_le(activities, goal) ==
    Cardinality({activities[i]["Date"] : i \in
        {j \in DOMAIN activities :
            total_time(OnDate(activities, activities[j]["Date"])) <= goal}})

\* days_completed_goal of update_stats
days_completed_goal(activities, goal) ==
    Cardinality({activities[i]["Date"] : i \in
        {j \in DOMAIN activities :
            total_time(OnDate(activities, activities[j]["Date"])) >= goal}})

\* the figures update_stats puts on the Stats tab; they go into the text of
\* the label and nowhere else
Stats(activities, goal) ==
    [total_activities    |-> Len(activities),
     unique_activities   |-> Cardinality({activities[i]["Activity"] : i \in DOMAIN activities}),
     total_time          |-> total_time(activities),
     days_logged         |-> Cardinality({activities[i]["Date"] : i \in DOMAIN activities}),
     days_completed_goal |-> days_completed_goal(activities, goal)]

\* goal_reached_today after update_pie_chart, from its value before
GoalFlag(total, goal, flag) ==
    IF total >= goal /\ ~flag THEN TRUE
    ELSE IF total < goal THEN FALSE
    ELSE flag

\* whether update_pie_chart shows the Goal Reached message
GoalNotice(total, goal, flag) == total >= goal /\ ~flag

\* the except FileNotFoundError of read_all_activities without its warning
read_all_warns_silent(f) == FALSE

\* read_all_activities on a missing file shows the File Not Found warning
read_all_warns(f) == ~f.exists

\* the except FileNotFoundError of read_activities_for_today is a pass
read_today_warns(f) == FALSE

\* a spin box without its range
InRange_any(v) == v

\* the value a spin box of range MinDuration..MaxDuration holds when v is
\* what the user tries to give it: setRange(1, 300) of duration_input and
\* min=1, max=300 of QInputDialog.getInt
InRange(v) == IF v < MinDuration THEN MinDuration
              ELSE IF v > MaxDuration THEN MaxDuration ELSE v

VARIABLES
    store,               \* user id -> that user's file under user_data
    user_id,             \* self.user_id
    daily_goal,          \* self.daily_goal
    today,               \* the calendar day of datetime.now()
    table,               \* rows of activities_table, as load_activities left them
    progress,            \* total and remaining minutes shown by update_pie_chart
    goal_reached_today,  \* the setting of that name
    notified,            \* the last update_pie_chart showed Goal Reached
    last,                \* the last operation that went through, and its inputs
    pc,                  \* where __init__ stands, "ready" once the window is up
    warning,             \* the last step that went through showed File Not Found
    outcome,             \* how the last step ended: done, declined or IndexError
    told                 \* users shown Goal Reached whose total of today has
                         \* not been below the goal since

vars == <<store, user_id, daily_goal, today, table, progress,
          goal_reached_today, notified, last, pc, warning, outcome, told>>

\* the record of an operation that went through: what ran, the row it was
\* given, the record it wrote and how many records the file it acted on
\* held; one that was cancelled or refused leaves the record of the
\* operation before it
Op(name, done, idx, rec, f) ==
    IF done THEN [op |-> name, idx |-> idx, rec |-> rec,
                  before |-> Len(read_all_activities(f))]
    ELSE last

NoRec == [Date |-> "", Category |-> "", Activity |-> "", TimeSpent |-> ""]

\* load_activities: the table takes today's activities of the current user
load_activities(st, u, d) == read_activities_for_today(st[u], d)

\* update_pie_chart on store st for user u on day d
PieChart(st, u, d) ==
    LET acts  == read_activities_for_today(st[u], d)
        total == total_time(acts)
    IN  /\ progress' = [total_time |-> total,
                        remaining_time |-> remaining_time(acts, daily_goal)]
        /\ goal_reached_today' = GoalFlag(total, daily_goal, goal_reached_today)
        /\ notified' = GoalNotice(total, daily_goal, goal_reached_today)

\* the users who have been shown Goal Reached and whose total of today has
\* stayed at or above the goal, after a step that showed it (shown) or not
Tell(shown) ==
    told' = {u \in told \cup (IF shown THEN {user_id'} ELSE {}) :
                total_time(read_activities_for_today(store'[u], today')) >= daily_goal}

\* a step that was not completed: nothing is written and nothing refreshed
NotDone(how) ==
    /\ outcome' = how
    /\ UNCHANGED <<store, table, progress, goal_reached_today, notified,
                   warning, told>>

\* load_user_data without its initialize_csv
load_user_data_noinit(u) ==
    /\ store' = store
    /\ table' = load_activities(store, u, today)
    /\ PieChart(store, u, today)
    /\ warning' = (read_today_warns(store[u]) \/ read_all_warns(store[u]))

\* load_user_data for user u: initialize_csv, load_activities,
\* update_pie_chart, and update_stats, which reads all the records and only
\* renders Stats
load_user_data(u) ==
    LET st == [store EXCEPT ![u] = initialize_csv(store[u])]
    IN  /\ store' = st
        /\ table' = load_activities(st, u, today)
        /\ PieChart(st, u, today)
        /\ warning' = (read_today_warns(st[u]) \/ read_all_warns(st[u]))

\* __init__ after load_settings on a first run: no file yet, nothing shown
Init ==
    /\ user_id = "default"
    /\ daily_goal \in Goals
    /\ today = 1
    /\ store = [u \in Users |-> NoFile]
    /\ table = <<>>
    /\ progress = [total_time |-> total_time(<<>>),
                   remaining_time |-> remaining_time(<<>>, daily_goal)]
    /\ goal_reached_today = FALSE
    /\ notified = FALSE
    /\ last = Op("init", TRUE, 0, NoRec, NoFile)
    /\ pc = "setup_home_tab"
    /\ warning = FALSE
    /\ outcome = "done"
    /\ told = {}

\* setup_home_tab: load_activities and update_pie_chart, before the file of
\* the user is made sure of
setup_home_tab ==
    /\ pc = "setup_home_tab"
    /\ pc' = "setup_stats_tab"
    /\ last' = Op("setup_home_tab", TRUE, 0, NoRec, store[user_id])
    /\ table' = load_activities(store, user_id, today)
    /\ PieChart(store, user_id, today)
    /\ warning' = read_today_warns(store[user_id])
    /\ outcome' = "done"
    /\ UNCHANGED <<store, user_id, daily_goal, today>>
    /\ Tell(notified')

\* setup_stats_tab: update_stats reads all the records
setup_stats_tab ==
    /\ pc = "setup_stats_tab"
    /\ pc' = "load_user_data"
    /\ last' = Op("setup_stats_tab", TRUE, 0, NoRec, store[user_id])
    /\ warning' = read_all_warns(store[user_id])
    /\ outcome' = "done"
    /\ UNCHANGED <<store, user_id, daily_goal, today, table, progress,
                   goal_reached_today, notified, told>>

\* init_ui ends with load_user_data
init_ui ==
    /\ pc = "load_user_data"
    /\ pc' = "ready"
    /\ last' = Op("load_user_data", TRUE, 0, NoRec, store[user_id])
    /\ load_user_data(user_id)
    /\ outcome' = "done"
    /\ UNCHANGED <<user_id, daily_goal, today>>
    /\ Tell(notified')

\* login: the dialog gives user_id and ok
login(uid, ok) ==
    /\ pc = "ready"
    /\ last' = Op("login", ok /\ uid # "", 0, NoRec,
                  IF uid \in Users THEN store[uid] ELSE NoFile)
    /\ IF ok /\ uid # ""
       THEN /\ user_id' = uid
            /\ load_user_data(uid)
            /\ outcome' = "done"
            /\ UNCHANGED <<daily_goal, today, pc>>
            /\ Tell(notified')
       ELSE /\ NotDone("declined")
            /\ UNCHANGED <<user_id, daily_goal, today, pc>>

\* register: as login, with initialize_csv called before load_user_data
\* calls it again
register(uid, ok) ==
    /\ pc = "ready"
    /\ last' = Op("register", ok /\ uid # "", 0, NoRec,
                  IF uid \in Users THEN store[uid] ELSE NoFile)
    /\ IF ok /\ uid # ""
       THEN LET st == [store EXCEPT ![uid] = initialize_csv(initialize_csv(store[uid]))]
            IN  /\ user_id' = uid
                /\ store' = st
                /\ table' = load_activities(st, uid, today)
                /\ PieChart(st, uid, today)
                /\ warning' = (read_today_warns(st[uid]) \/ read_all_warns(st[uid]))
                /\ outcome' = "done"
                /\ UNCHANGED <<daily_goal, today, pc>>
                /\ Tell(notified')
       ELSE /\ NotDone("declined")
            /\ UNCHANGED <<user_id, daily_goal, today, pc>>

\* the records held by all the stores together
RECURSIVE Held(_, _)
Held(st, us) ==
    IF us = {} THEN 0
    ELSE LET u == CHOOSE x \in us : TRUE
         IN  Len(read_all_activities(st[u])) + Held(st, us \ {u})

\* add_activity without its test of the trimmed name
add_activity_blank(category, text, duration) ==
    LET activity == Strip(text)
        row == <<DateStr(today), category, activity, Str(InRange(duration))>>
        st  == [store EXCEPT ![user_id] = append_row(store[user_id], row)]
    IN  /\ pc = "ready"
        /\ Held(store, Users) < MaxRecs
        /\ last' = Op("add", TRUE, 0, RowDict(Header, row), store[user_id])
        /\ store' = st
        /\ table' = load_activities(st, user_id, today)
        /\ PieChart(st, user_id, today)
        /\ warning' = read_today_warns(st[user_id])
        /\ outcome' = "done"
        /\ UNCHANGED <<user_id, daily_goal, today, pc>>
        /\ Tell(notified')

\* add_activity with the category, the text of the line edit and the duration
\* the user gives the spin box
add_activity(category, text, duration) ==
    LET activity == Strip(text)
        row == <<DateStr(today), category, activity, Str(InRange(duration))>>
        st  == [store EXCEPT ![user_id] = append_row(store[user_id], row)]
    IN  /\ pc = "ready"
        /\ Held(store, Users) < MaxRecs
        /\ last' = Op("add", activity # "", 0, RowDict(Header, row), store[user_id])
        /\ IF activity # ""
           THEN /\ store' = st
                /\ table' = load_activities(st, user_id, today)
                /\ PieChart(st, user_id, today)
                /\ warning' = read_today_warns(st[user_id])
                /\ outcome' = "done"
                /\ UNCHANGED <<user_id, daily_goal, today, pc>>
                /\ Tell(notified')
           ELSE /\ NotDone("declined")
                /\ UNCHANGED <<user_id, daily_goal, today, pc>>

\* edit_activity from the Edit button of table row row_idx, with what the
\* two dialogs return; a row past the end of today's list raises IndexError
\* before anything is written
edit_activity(row_idx, new_activity, ok_activity, new_time, ok_time) ==
    LET activities == read_activities_for_today(store[user_id], today)
        inrange    == row_idx <= Len(activities)
        edited     == [activities EXCEPT
                         ![row_idx] = [@ EXCEPT !["Activity"]  = new_activity,
                                                !["TimeSpent"] = Str(InRange(new_time))]]
        st         == [store EXCEPT ![user_id] = write_activities(edited)]
    IN  /\ pc = "ready"
        /\ row_idx \in 1..Len(table)
        /\ last' = Op("edit", ok_activity /\ ok_time /\ inrange, row_idx,
                      [NoRec EXCEPT !["Activity"]  = new_activity,
                                    !["TimeSpent"] = Str(InRange(new_time))],
                      store[user_id])
        /\ IF ok_activity /\ ok_time /\ inrange
           THEN /\ store' = st
                /\ table' = load_activities(st, user_id, today)
                /\ PieChart(st, user_id, today)
                /\ warning' = read_today_warns(st[user_id])
                /\ outcome' = "done"
                /\ UNCHANGED <<user_id, daily_goal, today, pc>>
                /\ Tell(notified')
           ELSE /\ NotDone(IF ok_activity /\ ok_time THEN "IndexError" ELSE "declined")
                /\ UNCHANGED <<user_id, daily_goal, today, pc>>

\* delete_activity from the Delete button of table row row_idx, with the
\* answer to the confirmation; a row past the end of today's list raises
\* IndexError before anything is written
delete_activity(row_idx, confirm) ==
    LET activities == read_activities_for_today(store[user_id], today)
        inrange    == row_idx <= Len(activities)
        st         == [store EXCEPT
                         ![user_id] = write_activities(RemoveAt(activities, row_idx))]
    IN  /\ pc = "ready"
        /\ row_idx \in 1..Len(table)
        /\ last' = Op("delete", confirm /\ inrange, row_idx, NoRec, store[user_id])
        /\ IF confirm /\ inrange
           THEN /\ store' = st
                /\ table' = load_activities(st, user_id, today)
                /\ PieChart(st, user_id, today)
                /\ warning' = read_today_warns(st[user_id])
                /\ outcome' = "done"
                /\ UNCHANGED <<user_id, daily_goal, today, pc>>
                /\ Tell(notified')
           ELSE /\ NotDone(IF confirm THEN "IndexError" ELSE "declined")
                /\ UNCHANGED <<user_id, daily_goal, today, pc>>

\* clear_history with the store of the default user in place of the
\* current user's
clear_history_default(confirm) ==
    LET st == [store EXCEPT !["default"] = clear_history_csv]
    IN  /\ pc = "ready"
        /\ last' = Op("clear", confirm, 0, NoRec, store[user_id])
        /\ IF confirm
           THEN /\ store' = st
                /\ table' = load_activities(st, user_id, today)
                /\ PieChart(st, user_id, today)
                /\ warning' = (read_today_warns(st[user_id]) \/ read_all_warns(st[user_id]))
                /\ outcome' = "done"
                /\ UNCHANGED <<user_id, daily_goal, today, pc>>
                /\ Tell(notified')
           ELSE /\ NotDone("declined")
                /\ UNCHANGED <<user_id, daily_goal, today, pc>>

\* clear_history of the application, with the answer to the confirmation
clear_history(confirm) ==
    LET st == [store EXCEPT ![user_id] = clear_history_csv]
    IN  /\ pc = "ready"
        /\ last' = Op("clear", confirm, 0, NoRec, store[user_id])
        /\ IF confirm
           THEN /\ store' = st
                /\ table' = load_activities(st, user_id, today)
                /\ PieChart(st, user_id, today)
                /\ warning' = (read_today_warns(st[user_id]) \/ read_all_warns(st[user_id]))
                /\ outcome' = "done"
                /\ UNCHANGED <<user_id, daily_goal, today, pc>>
                /\ Tell(notified')
           ELSE /\ NotDone("declined")
                /\ UNCHANGED <<user_id, daily_goal, today, pc>>

\* the calendar date moves on to the next day
NextDay ==
    /\ pc = "ready"
    /\ today < MaxDay
    /\ today' = today + 1
    /\ last' = Op("day", TRUE, 0, NoRec, store[user_id])
    /\ outcome' = "done"
    /\ UNCHANGED <<store, user_id, daily_goal, table, progress,
                   goal_reached_today, notified, pc, warning>>
    /\ Tell(FALSE)

Next ==
    \/ setup_home_tab
    \/ setup_stats_tab
    \/ init_ui
    \/ \E uid \in UserInputs, ok \in BOOLEAN : login(uid, ok)
    \/ \E uid \in UserInputs, ok \in BOOLEAN : register(uid, ok)
    \/ \E a \in AddInputs : add_activity(a.category, a.text, a.duration)
    \/ \E i \in 1..MaxRecs, e \in EditInputs :
          edit_activity(i, e.activity, e.ok_activity, e.time, e.ok_time)
    \/ \E i \in 1..MaxRecs, confirm \in BOOLEAN : delete_activity(i, confirm)
    \/ \E confirm \in BOOLEAN : clear_history(confirm)
    \/ NextDay

Spec == Init /\ [][Next]_vars

\* ------------------------------------------------------------------------
\* What the claims are stated in
\* ------------------------------------------------------------------------

\* the current user's records, and those of them dated today
All   == read_all_activities(store[user_id])
Today == read_activities_for_today(store[user_id], today)

\* the same after a step
AllAfter   == read_all_activities(store'[user_id'])
TodayAfter == read_activities_for_today(store'[user_id'], today')

\* the step is an operation of that name going through (one that does not
\* go through changes nothing at all)
Did(name) == vars' # vars /\ outcome' = "done" /\ last'.op = name

\* s without its i-th element
Without(s, i) == SubSeq(s, 1, i - 1) \o SubSeq(s, i + 1, Len(s))

\* the records of s dated day
Dated(s, day) == SelectSeq(s, LAMBDA a : a["Date"] = day)

\* where in s the i-th record dated day stands
PosOf(s, day, i) ==
    CHOOSE k \in DOMAIN s :
        /\ s[k]["Date"] = day
        /\ Cardinality({j \in 1..k : s[j]["Date"] = day}) = i

RECURSIVE Sum(_)
\* the minutes of a sequence of records
Sum(s) == IF s = <<>> THEN 0 ELSE int(s[Len(s)]["TimeSpent"]) + Sum(SubSeq(s, 1, Len(s) - 1))

Email30 == [Date |-> DateStr(1), Category |-> "Work", Activity |-> "Email", TimeSpent |-> "30"]
Call40  == [Date |-> DateStr(1), Category |-> "Leisure", Activity |-> "Call", TimeSpent |-> "40"]

\* C1: a delete of table row i removes from the user's persisted sequence
\* the i-th record of today and nothing else: every other record, of any
\* date, is still read back afterwards, in the same order.
C1_DeleteKeepsOtherRecords ==
    [][Did("delete") =>
            AllAfter = Without(All, PosOf(All, DateStr(today), last'.idx))]_vars

\* C2: an edit of table row i changes the activity name and the duration of
\* the i-th record of today and nothing else: its date and category stay,
\* and every other record, of any date, is read back unchanged afterwards.
C2_EditKeepsOtherRecords ==
    [][Did("edit") =>
            LET k == PosOf(All, DateStr(today), last'.idx)
            IN  AllAfter = [All EXCEPT ![k] =
                               [Date      |-> All[k]["Date"],
                                Category  |-> All[k]["Category"],
                                Activity  |-> last'.rec["Activity"],
                                TimeSpent |-> last'.rec["TimeSpent"]]]]_vars

\* C3: an add puts the submitted record (today's date, the chosen category,
\* the trimmed name, the duration as text) at the end of what read_all
\* returns and leaves the earlier records as they were, so read_all returns
\* the appended records in append order.
C3_AppendAtEnd ==
    [][Did("add") =>
            /\ store[user_id].exists
            /\ AllAfter = Append(All, last'.rec)
            /\ last'.rec["Date"] = DateStr(today)
            /\ \E a \in AddInputs :
                  /\ last'.rec["Category"] = a.category
                  /\ last'.rec["TimeSpent"] = Str(a.duration)
                  /\ last'.rec["Activity"] \in {"Email", "Call"}]_vars

C3_Witness ==
    /\ last.op = "add"
    /\ last.before = 1
    /\ All = <<Email30, Call40>>

\* C4: for every user and every date, read_today is exactly the records of
\* read_all with that date, in the same order.
C4_TodayIsDatedPartOfAll ==
    \A u \in Users, d \in 1..MaxDay :
        read_activities_for_today(store[u], d)
            = Dated(read_all_activities(store[u]), DateStr(d))

C4_Witness ==
    /\ Len(Today) >= 1
    /\ Len(All) > Len(Today)
    /\ Today = Dated(All, DateStr(today))

\* C5: writing back what read_all returns leaves the persisted records the
\* same, in the same order, and writing back again leaves the file the same.
C5_WriteBackIdempotent ==
    \A u \in Users :
        LET once  == write_activities(read_all_activities(store[u]))
            twice == write_activities(read_all_activities(once))
        IN  /\ read_all_activities(once) = read_all_activities(store[u])
            /\ store[u].exists => once = store[u]
            /\ twice = once

C5_Witness ==
    /\ Len(All) >= 2
    /\ All[1] # All[2]
    /\ write_activities(All) = store[user_id]

\* C6: after clear the user's store exists and holds the header alone, and
\* read_all and read_today are empty.
C6_ClearLeavesHeaderOnly ==
    last.op = "clear" =>
        /\ store[user_id].exists
        /\ store[user_id].lines = <<Header>>
        /\ All = <<>>
        /\ Today = <<>>
        /\ table = <<>>

C6_Witness ==
    /\ last.op = "clear"
    /\ last.before >= 2
    /\ All = <<>>

\* C7: initialize on a missing store creates one with the header alone and
\* no records; on an existing store it changes nothing; so a login or a
\* register of a user id gives a header-only store when there was none and
\* leaves the file as it was when there was one, and touches no other user.
C7_InitializeIdempotent ==
    [][Did("login") \/ Did("register") =>
            LET u == user_id'
            IN  /\ store[u].exists => store'[u] = store[u]
                /\ ~store[u].exists => /\ store'[u].exists
                                       /\ store'[u].lines = <<Header>>
                                       /\ AllAfter = <<>>
                /\ initialize_csv(store'[u]) = store'[u]
                /\ \A v \in Users \ {u} : store'[v] = store[v]]_vars

C7_Witness ==
    /\ last.op = "register"
    /\ last.before >= 1
    /\ Len(All) = last.before

\* C8: after a delete of today's row i, read_today is what it was without
\* its i-th element, the table shows that, and today's total is less by the
\* minutes of the deleted record.
C8_DeleteTodayRow ==
    [][Did("delete") =>
            LET i == last'.idx
            IN  /\ i \in 1..Len(Today)
                /\ TodayAfter = Without(Today, i)
                /\ table' = Without(Today, i)
                /\ Sum(TodayAfter) = Sum(Today) - int(Today[i]["TimeSpent"])
                /\ progress'.total_time = Sum(Today) - int(Today[i]["TimeSpent"])]_vars

C8_Witness ==
    /\ last.op = "delete"
    /\ last.idx = 2
    /\ last.before = 2
    /\ Today = <<Email30>>
    /\ progress.total_time = 30

\* C9: for every goal the remaining time is the goal less today's total
\* when the total is below the goal and 0 otherwise, never negative; the
\* total of no records is 0; and what update_pie_chart last showed is that
\* for the daily goal.
C9_RemainingNeverNegative ==
    /\ total_time(<<>>) = 0
    /\ \A u \in Users, d \in 1..MaxDay, g \in TestGoals :
          LET acts == read_activities_for_today(store[u], d)
              r    == remaining_time(acts, g)
          IN  /\ r >= 0
              /\ r = IF Sum(acts) >= g THEN 0 ELSE g - Sum(acts)
    /\ last.op # "day" =>
          /\ progress.total_time = Sum(Today)
          /\ progress.remaining_time >= 0
          /\ progress.remaining_time =
                IF Sum(Today) >= daily_goal THEN 0 ELSE daily_goal - Sum(Today)

C9_Witness ==
    /\ daily_goal = 60
    /\ Today = <<Email30, Call40>>
    /\ progress = [total_time |-> 70, remaining_time |-> 0]

\* C10: the number of days meeting the goal is the number of distinct dates
\* whose minutes add up to at least the goal, and it does not grow when the
\* goal grows.
C10_DaysMeetingGoalMonotone ==
    \A u \in Users :
        LET acts  == read_all_activities(store[u])
            dates == {acts[i]["Date"] : i \in DOMAIN acts}
        IN  /\ \A g \in TestGoals :
                  days_completed_goal(acts, g)
                      = Cardinality({d \in dates : Sum(Dated(acts, d)) >= g})
            /\ \A g1 \in TestGoals, g2 \in TestGoals :
                  g1 <= g2 =>
                      days_completed_goal(acts, g2) <= days_completed_goal(acts, g1)

C10_Witness ==
    /\ days_completed_goal(All, 30) = 2
    /\ days_completed_goal(All, 31) = 1
    /\ days_completed_goal(All, 60) = 0

\* C11: on a missing store read_all and read_today both return the empty
\* sequence and leave the store missing; the read_all of update_stats shows
\* the File Not Found warning, the read_today of load_activities and of
\* update_pie_chart shows none.
C11_MissingStoreReadsEmpty ==
    /\ \A u \in Users :
          ~store[u].exists =>
              /\ read_all_activities(store[u]) = <<>>
              /\ \A d \in 1..MaxDay : read_activities_for_today(store[u], d) = <<>>
    /\ pc = "setup_stats_tab" =>
          /\ ~store[user_id].exists
          /\ table = <<>>
          /\ progress.total_time = 0
          /\ ~warning
    /\ pc = "load_user_data" =>
          /\ ~store[user_id].exists
          /\ table = <<>>
          /\ warning

C11_Witness ==
    /\ pc = "load_user_data"
    /\ last.op = "setup_stats_tab"
    /\ ~store[user_id].exists
    /\ All = <<>>
    /\ warning

\* C12: every step changes at most the store of the user it acts for (the
\* user logged in or registered by it, the current user otherwise): the
\* file of every other user, and so that user's records, stay as they were,
\* and add, edit, delete and clear leave the current user who they were.
C12_UserIsolation ==
    [][/\ \A v \in Users \ {user_id'} :
             /\ store'[v] = store[v]
             /\ read_all_activities(store'[v]) = read_all_activities(store[v])
       /\ Did("add") \/ Did("edit") \/ Did("delete") \/ Did("clear") =>
             user_id' = user_id]_vars

C12_Witness ==
    /\ user_id = "ana"
    /\ last.op = "clear"
    /\ last.before >= 1
    /\ All = <<>>
    /\ read_all_activities(store["default"]) = <<Email30>>

\* C13: the TimeSpent of every record of every user is the text of an
\* integer from MinDuration to MaxDuration, whatever duration the add or the
\* edit was given.
C13_TimeSpentInRange ==
    \A u \in Users :
        LET acts == read_all_activities(store[u])
        IN  \A i \in DOMAIN acts :
                /\ acts[i]["TimeSpent"] \in DOMAIN IntTable
                /\ int(acts[i]["TimeSpent"]) >= MinDuration
                /\ int(acts[i]["TimeSpent"]) <= MaxDuration

C13_Witness ==
    /\ last.op = "edit"
    /\ \E e \in EditInputs : e.time > MaxDuration
    /\ Len(All) = 1
    /\ All[1]["TimeSpent"] = "300"

\* C14: once the window is up the current user's file exists, its first
\* line is the header and every later line is a record of four fields with
\* a date in the first; an add from such a state appends to that file and
\* leaves the header first.
C14_HeaderThenRecords ==
    pc = "ready" =>
        LET lines == store[user_id].lines
        IN  /\ store[user_id].exists
            /\ Len(lines) >= 1
            /\ lines[1] = Header
            /\ \A i \in 2..Len(lines) :
                  /\ Len(lines[i]) = Len(Header)
                  /\ lines[i] # Header
                  /\ lines[i][1] \in {DateStr(d) : d \in 1..MaxDay}
            /\ \A a \in AddInputs :
                  LET row == <<DateStr(today), a.category, Strip(a.text), Str(a.duration)>>
                      f   == append_row(store[user_id], row)
                  IN  /\ f.exists
                      /\ f.lines = Append(lines, row)

C14_Witness ==
    /\ pc = "ready"
    /\ last.op = "add"
    /\ user_id = "ana"
    /\ store[user_id].lines = <<Header, <<DateStr(1), "Work", "Email", "30">>>>

\* C15: a step that is an add whose name is empty once trimmed, an edit with
\* the name dialog or the duration dialog cancelled, or a delete or a clear
\* whose confirmation was not answered Yes, leaves every file, and so the
\* records read from it, and the table as they were.
C15_NotCompletedKeepsRecords ==
    [][(\/ \E a \in AddInputs :
              /\ a.text \in {"", " "}
              /\ add_activity(a.category, a.text, a.duration)
        \/ \E i \in 1..MaxRecs, e \in EditInputs :
              /\ ~e.ok_activity \/ ~e.ok_time
              /\ edit_activity(i, e.activity, e.ok_activity, e.time, e.ok_time)
        \/ \E i \in 1..MaxRecs : delete_activity(i, FALSE)
        \/ clear_history(FALSE))
       => /\ store' = store
          /\ AllAfter = All
          /\ table' = table]_vars

C15_Witness ==
    /\ outcome = "declined"
    /\ last.op = "add"
    /\ All = <<Email30>>
    /\ table = <<Email30>>

\* C16: once the window is up, every row of the table (the row index its
\* Edit and Delete buttons pass) is a position of the sequence read_today
\* returns at that moment, and the record at that position is the one the
\* row shows, also after the date has changed since the table was loaded.
C16_RowIndexValid ==
    pc = "ready" =>
        \A i \in 1..Len(table) :
            /\ i <= Len(Today)
            /\ Today[i] = table[i]

\* C17: on every refresh of the pie chart the goal_reached_today flag comes
\* out true exactly when today's total of the current user is at least the
\* daily goal, Goal Reached is shown only when the flag was false and comes
\* out true, and it is not shown to a user who was shown it before and
\* whose total of today has been at or above the goal ever since.
C17_GoalNotifiedOnce ==
    [][vars' # vars /\ outcome' = "done" /\ last'.op \notin {"day", "setup_stats_tab"} =>
            /\ goal_reached_today' = (Sum(TodayAfter) >= daily_goal)
            /\ notified' => ~goal_reached_today /\ goal_reached_today'
            /\ notified' => user_id' \notin told]_vars
====
